---- MODULE Spec2Model ----
(***************************************************************************)
(* The trashcan versioner of lib/versioner/trashcan.go: Archive moves a    *)
(* file into the hidden .stversions tree, Serve sweeps that tree on a      *)
(* timer (cleanoutArchive) until Stop closes the stop channel.             *)
(*                                                                         *)
(* Paths are sequences of names.  The clock `now` counts days (24 h), the  *)
(* unit in which cleanoutDays is expressed.  The archiver is modelled one  *)
(* filesystem call per step, the sweeper one walked entry per step.        *)
(***************************************************************************)
EXTENDS Integers, Sequences, FiniteSets, TLC

\* ---------------------------------------------------------------- bounds
MaxTime == 2      \* the clock runs over 0..MaxTime days
MaxLive == 1      \* files present in the live tree at the same time
MaxCount == 1     \* the observation counters expiries and sweeps saturate here

\* ------------------------------------------------------------------ timer
FirstDelayDays == 0   \* line 97: time.Minute, less than a day
RearmDays == 1        \* line 113: 24 * time.Hour

\* ----------------------------------------------------------------- paths
versionsDir == <<".stversions">>

\* The relative paths callers hand to Archive.
FilePaths == {<<"b", "c", "g">>, <<"z">>}

\* The names used in the versions tree, in lexical order (the order of a walk).
Names == <<"b", "c", "g", "z">>

Join(d, p) == d \o p

Dir(p) == SubSeq(p, 1, Len(p) - 1)

archivedPathOf(p) == Join(versionsDir, p)

ArchPaths == {archivedPathOf(p) : p \in FilePaths}

AllFiles == FilePaths \cup ArchPaths

\* The directories of the versions tree, versionsDir included.
VersionDirs == UNION {{SubSeq(q, 1, k) : k \in 1..(Len(q) - 1)} : q \in ArchPaths}

NoPath == <<>>

\* ----------------------------------------------------- filesystem entries
NoEntry == [kind |-> "none", content |-> 0, mtime |-> 0]

Contents == {1, 2}

FileEntry(c, m) == [kind |-> "file", content |-> c, mtime |-> m]

SymlinkEntry == [kind |-> "symlink", content |-> 0, mtime |-> 0]

IsFile(fs, p) == p \in AllFiles /\ fs.files[p].kind # "none"

IsDir(fs, p) == p \in fs.dirs

Exists(fs, p) == IsFile(fs, p) \/ IsDir(fs, p)

\* fs.DirNames: the names in a directory, sorted.
DirNames(fs, d) == SelectSeq(Names, LAMBDA n : Exists(fs, Join(d, <<n>>)))

\* fs.MkdirAll: the directory and every missing ancestor.  A versionsDir made
\* here is not hidden.
MkdirAll(fs, d) ==
    [fs EXCEPT !.dirs = @ \cup {SubSeq(d, 1, k) : k \in 1..Len(d)},
               !.hidden = IF versionsDir \in fs.dirs THEN @ ELSE FALSE]

\* fs.Hide: marks an existing directory hidden.
Hide(fs, d) == IF d = versionsDir /\ IsDir(fs, d) THEN [fs EXCEPT !.hidden = TRUE] ELSE fs

\* fs.Remove succeeds on a file and on an empty directory.
CanRemove(fs, p) == \/ IsFile(fs, p)
                    \/ IsDir(fs, p) /\ DirNames(fs, p) = <<>>

Remove(fs, p) ==
    IF ~CanRemove(fs, p) THEN fs
    ELSE IF IsFile(fs, p) THEN [fs EXCEPT !.files[p] = NoEntry]
    ELSE [fs EXCEPT !.dirs = @ \ {p},
                    !.hidden = IF p = versionsDir THEN FALSE ELSE @]

\* osutil.Rename: an atomic move that replaces the target and keeps the
\* entry's content and mtime; it needs the target's directory.
CanRename(fs, from, to) == IsFile(fs, from) /\ IsDir(fs, Dir(to))

Rename(fs, from, to) ==
    IF CanRename(fs, from, to)
    THEN [fs EXCEPT !.files[to] = fs.files[from], !.files[from] = NoEntry]
    ELSE fs

\* fs.Chtimes on an existing file.
Chtimes(fs, p, t) == IF IsFile(fs, p) THEN [fs EXCEPT !.files[p].mtime = t] ELSE fs

\* A filesystem value holds the entries at the file paths, the directories of
\* the versions tree that exist, and whether versionsDir carries the hidden
\* mark.  At construction, on day t, the live tree is empty here and the
\* versions tree is any tree earlier runs can have left: every directory has
\* its parent, every archived file its directory and an mtime up to t, and
\* versionsDir is hidden.
InitTrees(t) ==
    {tree \in [files : [AllFiles -> {NoEntry} \cup {FileEntry(1, m) : m \in 0..t}],
               dirs : SUBSET VersionDirs,
               hidden : BOOLEAN] :
        /\ \A p \in FilePaths : tree.files[p] = NoEntry
        /\ \A d \in tree.dirs : d = versionsDir \/ Dir(d) \in tree.dirs
        /\ \A q \in ArchPaths : tree.files[q] # NoEntry => Dir(q) \in tree.dirs
        /\ tree.hidden = (versionsDir \in tree.dirs)}

\* ------------------------------------------------------------ strconv.Atoi
Digits == <<"0", "1", "2", "3", "4", "5", "6", "7", "8", "9">>

IsDigit(c) == \E i \in 1..Len(Digits) : Digits[i] = c

DigitValue(c) == (CHOOSE i \in 1..Len(Digits) : Digits[i] = c) - 1

RECURSIVE DecimalValue(_)
DecimalValue(s) == IF s = <<>> THEN 0
                   ELSE DecimalValue(SubSeq(s, 1, Len(s) - 1)) * 10 + DigitValue(s[Len(s)])

\* Atoi of a string given as its characters: an optional sign and at least
\* one digit, anything else is an error and the value 0.
Atoi(s) ==
    LET signed == s # <<>> /\ s[1] \in {"+", "-"}
        body == IF signed THEN Tail(s) ELSE s
    IN  IF body = <<>> \/ \E i \in 1..Len(body) : ~IsDigit(body[i]) THEN 0
        ELSE IF signed /\ s[1] = "-" THEN 0 - DecimalValue(body)
        ELSE DecimalValue(body)

\* The values of params["cleanoutDays"]: absent (the empty string), unparsable,
\* and numbers.
ParamValues == {<<>>, <<"1", "d">>, <<"0">>, <<"1">>, <<"-", "1">>}

\* ------------------------------------------------------------------ state
VARIABLES
    fs,            \* the filesystem behind t.filesystem
    now,           \* time.Now(), in days
    param,         \* params["cleanoutDays"] as NewTrashcan got it
    cleanoutDays,  \* t.cleanoutDays
    stop,          \* TRUE once the channel t.stop is closed
    crashed,       \* TRUE once a panic has ended the process
    apc,           \* where the Archive call stands ("done": none in progress)
    filePath,      \* Archive's argument
    info,          \* what Archive's Lstat returned
    ret,           \* what the last Archive call returned
    chtimesErr,    \* the last call's Chtimes failed (the code drops its error)
    movedAt,       \* the day the call in progress moved its file (-1: not yet)
    spc,           \* where Serve stands
    timer,         \* Serve's timer: "off", "armed", "fired"
    due,           \* the day the armed timer expires (0 when it is not armed)
    cutoff,        \* cleanoutArchive's cutoff
    currentDir,    \* cleanoutArchive's currentDir (NoPath is "")
    filesInDir,    \* cleanoutArchive's filesInDir
    walk,          \* fs.Walk's pending work: frames [dir, names], innermost first
    sweepErr,      \* what the last cleanoutArchive returned: "none", "nil", "err"
    delFailed,     \* a Remove of the sweep in progress failed on a fault
    soleExpired,   \* the directories whose only entry, at the sweep's start,
                   \* was one expired file
    withSubdirs,   \* the directories that held a directory at the sweep's start
    removedAny,    \* the sweep in progress has removed something
    expiries,      \* timer expiries Serve has handled (saturating)
    sweeps         \* calls of cleanoutArchive (saturating)

archVars == <<apc, filePath, info, ret, chtimesErr, movedAt>>

sweepVars == <<cutoff, currentDir, filesInDir, walk, sweepErr, delFailed, soleExpired,
               withSubdirs, removedAny>>

serveVars == <<spc, timer, due, expiries, sweeps>>

vars == <<fs, now, param, cleanoutDays, stop, crashed, archVars, sweepVars, serveVars>>

\* ---------------------------------------------------------- construction
\* NewTrashcan: cleanoutDays from the parameter (0 on a parse error), an open
\* stop channel.
NewTrashcan(value) ==
    /\ param = value
    /\ cleanoutDays = Atoi(value)
    /\ stop = FALSE

Init ==
    /\ \E value \in ParamValues : NewTrashcan(value)
    /\ now \in 0..MaxTime
    /\ fs \in InitTrees(now)
    /\ crashed = FALSE
    /\ apc = "done" /\ filePath = NoPath /\ info = NoEntry /\ ret = "none"
    /\ chtimesErr = FALSE /\ movedAt = -1
    /\ spc = "created" /\ timer = "off" /\ due = 0
    /\ cutoff = 0 /\ currentDir = NoPath /\ filesInDir = 0 /\ walk = <<>>
    /\ sweepErr = "none" /\ delFailed = FALSE /\ soleExpired = {} /\ withSubdirs = {}
    /\ removedAny = FALSE
    /\ expiries = 0 /\ sweeps = 0

\* A panic ends the process: its goroutines and their variables are gone, the
\* filesystem stays as it is.
KillServe ==
    /\ spc' = "dead" /\ timer' = "off" /\ due' = 0
    /\ cutoff' = 0 /\ currentDir' = NoPath /\ filesInDir' = 0 /\ walk' = <<>>
    /\ sweepErr' = "none" /\ delFailed' = FALSE /\ soleExpired' = {} /\ withSubdirs' = {}
    /\ removedAny' = FALSE
    /\ UNCHANGED <<expiries, sweeps>>

KillArchive ==
    /\ apc' = "dead" /\ filePath' = NoPath /\ info' = NoEntry /\ ret' = "none"
    /\ chtimesErr' = FALSE /\ movedAt' = -1

\* ---------------------------------------------------------------- Archive
archivedPath == archivedPathOf(filePath)

\* Archive returns r; the caller has the result in hand (ArchiveDone follows).
Return(r) == apc' = "returned" /\ ret' = r

\* ArchiveLstat without the early return for a missing path.
ArchiveLstatNoEarlyReturn(p) ==
    /\ ~crashed /\ apc = "done"
    /\ \E fault \in BOOLEAN :
        LET e == fs.files[p]
            failed == fault /\ e.kind # "none"
        IN  /\ filePath' = p
            /\ info' = IF failed THEN NoEntry ELSE e
            /\ chtimesErr' = FALSE
            /\ IF e.kind = "symlink" /\ ~failed
               THEN Return("panic") /\ crashed' = TRUE /\ KillServe
               ELSE /\ IF failed THEN Return("ErrLstat")
                       ELSE apc' = "stat" /\ ret' = "none"
                    /\ UNCHANGED <<crashed, sweepVars, serveVars>>
    /\ UNCHANGED <<fs, now, param, cleanoutDays, stop, movedAt>>

\* ArchiveLstat without the symlink check.
ArchiveLstatNoSymlinkCheck(p) ==
    /\ ~crashed /\ apc = "done"
    /\ \E fault \in BOOLEAN :
        LET e == fs.files[p]
            failed == fault /\ e.kind # "none"
        IN  /\ filePath' = p
            /\ info' = IF failed THEN NoEntry ELSE e
            /\ chtimesErr' = FALSE
            /\ IF e.kind = "none" THEN Return("nil")
               ELSE IF failed THEN Return("ErrLstat")
               ELSE apc' = "stat" /\ ret' = "none"
    /\ UNCHANGED <<fs, now, param, cleanoutDays, stop, crashed, movedAt,
                   sweepVars, serveVars>>

\* Lines 47-56: Lstat of the path; a missing path is success, another error
\* is returned, a symlink is a panic.
ArchiveLstat(p) ==
    /\ ~crashed /\ apc = "done"
    /\ \E fault \in BOOLEAN :
        LET e == fs.files[p]
            failed == fault /\ e.kind # "none"
        IN  /\ filePath' = p
            /\ info' = IF failed THEN NoEntry ELSE e
            /\ chtimesErr' = FALSE
            /\ IF e.kind = "symlink" /\ ~failed
               THEN Return("panic") /\ crashed' = TRUE /\ KillServe
               ELSE /\ IF e.kind = "none" THEN Return("nil")
                       ELSE IF failed THEN Return("ErrLstat")
                       ELSE apc' = "stat" /\ ret' = "none"
                    /\ UNCHANGED <<crashed, sweepVars, serveVars>>
    /\ UNCHANGED <<fs, now, param, cleanoutDays, stop, movedAt>>

\* Lines 59-62: Stat of the versions directory.
ArchiveStat ==
    /\ ~crashed /\ apc = "stat"
    /\ \E fault \in BOOLEAN :
        IF fault THEN Return("ErrStat")
        ELSE IF IsDir(fs, versionsDir) THEN apc' = "mkparent" /\ ret' = ret
        ELSE apc' = "mkversions" /\ ret' = ret
    /\ UNCHANGED <<fs, now, param, cleanoutDays, stop, crashed, filePath, info, chtimesErr,
                   movedAt, sweepVars, serveVars>>

\* Lines 64-67: the versions directory is created.
ArchiveMkdirVersions ==
    /\ ~crashed /\ apc = "mkversions"
    /\ \E fault \in BOOLEAN :
        IF fault THEN Return("ErrMkdirVersions") /\ fs' = fs
        ELSE apc' = "hide" /\ ret' = ret /\ fs' = MkdirAll(fs, versionsDir)
    /\ UNCHANGED <<now, param, cleanoutDays, stop, crashed, filePath, info, chtimesErr,
                   movedAt, sweepVars, serveVars>>

\* Line 68: the versions directory is hidden; the result is not looked at.
ArchiveHide ==
    /\ ~crashed /\ apc = "hide"
    /\ \E fault \in BOOLEAN : fs' = IF fault THEN fs ELSE Hide(fs, versionsDir)
    /\ apc' = "mkparent"
    /\ UNCHANGED <<now, param, cleanoutDays, stop, crashed, filePath, info, ret, chtimesErr,
                   movedAt, sweepVars, serveVars>>

\* Lines 73-76: the directories of the archived path are created.
ArchiveMkdirParent ==
    /\ ~crashed /\ apc = "mkparent"
    /\ \E fault \in BOOLEAN :
        IF fault THEN Return("ErrMkdirParent") /\ fs' = fs
        ELSE apc' = "rename" /\ ret' = ret /\ fs' = MkdirAll(fs, Dir(archivedPath))
    /\ UNCHANGED <<now, param, cleanoutDays, stop, crashed, filePath, info, chtimesErr,
                   movedAt, sweepVars, serveVars>>

\* Lines 80-82: the move.
ArchiveRename ==
    /\ ~crashed /\ apc = "rename"
    /\ \E fault \in BOOLEAN :
        IF fault \/ ~CanRename(fs, filePath, archivedPath)
        THEN Return("ErrRename") /\ fs' = fs /\ movedAt' = movedAt
        ELSE /\ apc' = "chtimes" /\ ret' = ret /\ movedAt' = now
             /\ fs' = Rename(fs, filePath, archivedPath)
    /\ UNCHANGED <<now, param, cleanoutDays, stop, crashed, filePath, info, chtimesErr,
                   sweepVars, serveVars>>

\* ArchiveChtimes with the error of Chtimes returned.
ArchiveChtimesChecked ==
    /\ ~crashed /\ apc = "chtimes"
    /\ \E fault \in BOOLEAN :
        /\ fs' = IF fault THEN fs ELSE Chtimes(fs, archivedPath, now)
        /\ chtimesErr' = (fault \/ ~IsFile(fs, archivedPath))
        /\ IF fault \/ ~IsFile(fs, archivedPath) THEN Return("ErrChtimes")
           ELSE Return("nil")
    /\ UNCHANGED <<now, param, cleanoutDays, stop, crashed, filePath, info, movedAt,
                   sweepVars, serveVars>>

\* ArchiveChtimes handing Chtimes the file's own modification time.
ArchiveChtimesStale ==
    /\ ~crashed /\ apc = "chtimes"
    /\ \E fault \in BOOLEAN :
        /\ fs' = IF fault THEN fs ELSE Chtimes(fs, archivedPath, info.mtime)
        /\ chtimesErr' = (fault \/ ~IsFile(fs, archivedPath))
    /\ Return("nil")
    /\ UNCHANGED <<now, param, cleanoutDays, stop, crashed, filePath, info, movedAt,
                   sweepVars, serveVars>>

\* Lines 87-89: the archived file's mtime is set to now, the error dropped,
\* and Archive returns nil.
ArchiveChtimes ==
    /\ ~crashed /\ apc = "chtimes"
    /\ \E fault \in BOOLEAN :
        /\ fs' = IF fault THEN fs ELSE Chtimes(fs, archivedPath, now)
        /\ chtimesErr' = (fault \/ ~IsFile(fs, archivedPath))
    /\ Return("nil")
    /\ UNCHANGED <<now, param, cleanoutDays, stop, crashed, filePath, info, movedAt,
                   sweepVars, serveVars>>

\* The caller goes on after a call that returned; a panic has ended it.
ArchiveDone ==
    /\ ~crashed /\ apc = "returned"
    /\ apc' = "done" /\ filePath' = NoPath /\ info' = NoEntry /\ ret' = "none"
    /\ chtimesErr' = FALSE /\ movedAt' = -1
    /\ UNCHANGED <<fs, now, param, cleanoutDays, stop, crashed, sweepVars, serveVars>>

Archive == \/ \E p \in FilePaths : ArchiveLstat(p)
           \/ ArchiveDone
           \/ ArchiveStat
           \/ ArchiveMkdirVersions
           \/ ArchiveHide
           \/ ArchiveMkdirParent
           \/ ArchiveRename
           \/ ArchiveChtimes

\* ------------------------------------------------------------ the caller
LiveCount == Cardinality({p \in FilePaths : IsFile(fs, p)})

\* The caller's thread, between Archive calls, changes the live tree.
CreateFile(p, c) ==
    /\ ~crashed /\ apc = "done"
    /\ ~IsFile(fs, p) /\ LiveCount < MaxLive
    /\ fs' = [fs EXCEPT !.files[p] = FileEntry(c, now)]
    /\ UNCHANGED <<now, param, cleanoutDays, stop, crashed, archVars, sweepVars, serveVars>>

CreateSymlink(p) ==
    /\ ~crashed /\ apc = "done"
    /\ ~IsFile(fs, p) /\ LiveCount < MaxLive
    /\ fs' = [fs EXCEPT !.files[p] = SymlinkEntry]
    /\ UNCHANGED <<now, param, cleanoutDays, stop, crashed, archVars, sweepVars, serveVars>>

DeleteLive(p) ==
    /\ ~crashed /\ apc = "done"
    /\ IsFile(fs, p)
    /\ fs' = [fs EXCEPT !.files[p] = NoEntry]
    /\ UNCHANGED <<now, param, cleanoutDays, stop, crashed, archVars, sweepVars, serveVars>>

Caller == \E p \in FilePaths :
            \/ \E c \in Contents : CreateFile(p, c)
            \/ CreateSymlink(p)
            \/ DeleteLive(p)

\* A day passes.
Tick ==
    /\ ~crashed /\ now < MaxTime
    /\ now' = now + 1
    /\ UNCHANGED <<fs, param, cleanoutDays, stop, crashed, archVars, sweepVars, serveVars>>

\* -------------------------------------------------------- cleanoutArchive
\* Line 132: the cutoff, in days.
cutoffAt(t, days) == t - days

\* Before with the cutoff day itself counted as expired.
NotAfter(mtime, c) == mtime <= c

\* Line 152: info.ModTime().Before(cutoff).
Before(mtime, c) == mtime < c

Min(a, b) == IF a < b THEN a ELSE b

\* walkFn's state: the filesystem and the variables the closure captures.
WalkState == [fs |-> fs, currentDir |-> currentDir, filesInDir |-> filesInDir,
              delFailed |-> delFailed]

\* Lines 140-150: walkFn on a directory.  The directory tracked so far is
\* removed when no file was counted for it; Remove's error is dropped.
walkFnDir(w, path, fault) ==
    LET try == w.currentDir # NoPath /\ w.filesInDir = 0
    IN  [fs |-> IF try /\ ~fault THEN Remove(w.fs, w.currentDir) ELSE w.fs,
         currentDir |-> path,
         filesInDir |-> 0,
         delFailed |-> w.delFailed \/ (try /\ fault /\ CanRemove(w.fs, w.currentDir))]

\* walkFn on a file, removing it whatever its age.
walkFnFileAnyAge(w, path, entry, c, fault) ==
    [w EXCEPT !.fs = IF fault THEN @ ELSE Remove(@, path),
              !.delFailed = @ \/ fault]

\* Lines 152-160: walkFn on a file.
walkFnFile(w, path, entry, c, fault) ==
    IF Before(entry.mtime, c)
    THEN [w EXCEPT !.fs = IF fault THEN @ ELSE Remove(@, path),
                   !.delFailed = @ \/ fault]
    ELSE [w EXCEPT !.filesInDir = @ + 1]

\* fs.Walk leaves a directory once its names are used up.
RECURSIVE Unwind(_)
Unwind(frames) == IF frames = <<>> THEN <<>>
                  ELSE IF Head(frames).names = <<>> THEN Unwind(Tail(frames))
                  ELSE frames

\* The directories that hold nothing but one expired file.
SoleExpired(f, c) ==
    {d \in f.dirs \ {versionsDir} :
        LET names == DirNames(f, d)
        IN  /\ Len(names) = 1
            /\ IsFile(f, Join(d, names))
            /\ Before(f.files[Join(d, names)].mtime, c)}

\* The directories that hold a directory.
WithSubdirs(f) == {d \in f.dirs : \E n \in 1..Len(Names) : IsDir(f, Join(d, <<Names[n]>>))}

\* SweepReturn with an error of the walk falling through to the final check.
SweepReturnViaFinalCheck(e) ==
    sweepErr' = e /\ spc' = (IF e = "err" THEN "final" ELSE "rearm") /\ walk' = <<>>

\* cleanoutArchive returns e to Serve.
SweepReturn(e) == sweepErr' = e /\ spc' = "rearm" /\ walk' = <<>>

Apply(w) == /\ fs' = w.fs
            /\ currentDir' = w.currentDir
            /\ filesInDir' = w.filesInDir
            /\ delFailed' = w.delFailed
            /\ removedAny' = (removedAny \/ w.fs # fs)

\* Lines 127-134: nothing to do without a versions directory; otherwise the
\* cutoff is taken once.
cleanoutLstat ==
    /\ ~crashed /\ spc = "clean"
    /\ \E fault \in BOOLEAN :
        IF ~fault /\ ~Exists(fs, versionsDir)
        THEN /\ SweepReturn("nil")
             /\ UNCHANGED <<cutoff, currentDir, filesInDir, delFailed, soleExpired, withSubdirs,
                          removedAny>>
        ELSE /\ cutoff' = cutoffAt(now, cleanoutDays)
             /\ currentDir' = NoPath
             /\ filesInDir' = 0
             /\ delFailed' = FALSE
             /\ soleExpired' = SoleExpired(fs, cutoffAt(now, cleanoutDays))
             /\ withSubdirs' = WithSubdirs(fs)
             /\ removedAny' = FALSE
             /\ spc' = "walkroot"
             /\ UNCHANGED <<walk, sweepErr>>
    /\ UNCHANGED <<fs, now, param, cleanoutDays, stop, crashed, archVars, timer, due, expiries,
                   sweeps>>

\* Line 163, the root: Walk stats it, hands it to walkFn and reads its names.
walkRoot ==
    /\ ~crashed /\ spc = "walkroot"
    /\ \E faults \in SUBSET {"lstat", "dirnames"} :
        IF "lstat" \in faults \/ ~IsDir(fs, versionsDir)
        THEN SweepReturn("err")
                 /\ UNCHANGED <<fs, currentDir, filesInDir, delFailed, removedAny>>
        ELSE LET w == walkFnDir(WalkState, versionsDir, FALSE)
             IN  /\ Apply(w)
                 /\ IF "dirnames" \in faults THEN SweepReturn("err")
                    ELSE LET frames == Unwind(<<[dir |-> versionsDir,
                                                 names |-> DirNames(w.fs, versionsDir)]>>)
                         IN  /\ walk' = frames
                             /\ spc' = IF frames = <<>> THEN "final" ELSE "walk"
                             /\ sweepErr' = sweepErr
    /\ UNCHANGED <<now, param, cleanoutDays, stop, crashed, archVars, cutoff, soleExpired,
                   withSubdirs,
                   timer, due, expiries, sweeps>>

\* Line 163, one entry: Walk stats the next name and hands it to walkFn; a
\* directory's names are read after walkFn has seen it.  An error of Lstat or
\* of DirNames goes to walkFn, which returns it, and that ends the walk.
walkStep ==
    /\ ~crashed /\ spc = "walk"
    /\ LET top == Head(walk)
           path == Join(top.dir, <<Head(top.names)>>)
           rest == <<[top EXCEPT !.names = Tail(@)]>> \o Tail(walk)
       IN  \E faults \in SUBSET {"lstat", "remove", "dirnames"} :
            IF "lstat" \in faults \/ ~Exists(fs, path)
            THEN SweepReturn("err")
                 /\ UNCHANGED <<fs, currentDir, filesInDir, delFailed, removedAny>>
            ELSE IF IsDir(fs, path)
            THEN LET w == walkFnDir(WalkState, path, "remove" \in faults)
                 IN  /\ Apply(w)
                     /\ IF "dirnames" \in faults THEN SweepReturn("err")
                        ELSE LET frames == Unwind(<<[dir |-> path,
                                                     names |-> DirNames(w.fs, path)]>> \o rest)
                             IN  /\ walk' = frames
                                 /\ spc' = IF frames = <<>> THEN "final" ELSE "walk"
                                 /\ sweepErr' = sweepErr
            ELSE LET w == walkFnFile(WalkState, path, fs.files[path], cutoff,
                                     "remove" \in faults)
                     frames == Unwind(rest)
                 IN  /\ Apply(w)
                     /\ walk' = frames
                     /\ spc' = IF frames = <<>> THEN "final" ELSE "walk"
                     /\ sweepErr' = sweepErr
    /\ UNCHANGED <<now, param, cleanoutDays, stop, crashed, archVars, cutoff, soleExpired,
                   withSubdirs,
                   timer, due, expiries, sweeps>>

\* finalCheck with Serve returning from inside the sweep once stop is closed.
finalCheckLeavesOnStop ==
    /\ ~crashed /\ spc = "final"
    /\ \E fault \in BOOLEAN :
        LET try == currentDir # NoPath /\ filesInDir = 0
        IN  /\ fs' = IF try /\ ~fault THEN Remove(fs, currentDir) ELSE fs
            /\ delFailed' = (delFailed \/ (try /\ fault /\ CanRemove(fs, currentDir)))
            /\ removedAny' = (removedAny \/ (try /\ ~fault /\ CanRemove(fs, currentDir)))
    /\ sweepErr' = "nil" /\ walk' = <<>>
    /\ spc' = IF stop THEN "stopped" ELSE "rearm"
    /\ UNCHANGED <<now, param, cleanoutDays, stop, crashed, archVars, cutoff, currentDir,
                   filesInDir, soleExpired, withSubdirs, timer, due, expiries, sweeps>>

\* finalCheck going on to the parent of the directory it has removed.
finalCheckCascade ==
    /\ ~crashed /\ spc = "final"
    /\ \E fault \in BOOLEAN :
        LET try == currentDir # NoPath /\ filesInDir = 0
        IN  /\ fs' = IF try /\ ~fault THEN Remove(Remove(fs, currentDir), Dir(currentDir))
                     ELSE fs
            /\ delFailed' = (delFailed \/ (try /\ fault /\ CanRemove(fs, currentDir)))
            /\ removedAny' = (removedAny \/ (try /\ ~fault /\ CanRemove(fs, currentDir)))
    /\ SweepReturn("nil")
    /\ UNCHANGED <<now, param, cleanoutDays, stop, crashed, archVars, cutoff, currentDir,
                   filesInDir, soleExpired, withSubdirs, timer, due, expiries, sweeps>>

\* Lines 167-172: the last directory walkFn saw.
finalCheck ==
    /\ ~crashed /\ spc = "final"
    /\ \E fault \in BOOLEAN :
        LET try == currentDir # NoPath /\ filesInDir = 0
        IN  /\ fs' = IF try /\ ~fault THEN Remove(fs, currentDir) ELSE fs
            /\ delFailed' = (delFailed \/ (try /\ fault /\ CanRemove(fs, currentDir)))
            /\ removedAny' = (removedAny \/ (try /\ ~fault /\ CanRemove(fs, currentDir)))
    /\ SweepReturn("nil")
    /\ UNCHANGED <<now, param, cleanoutDays, stop, crashed, archVars, cutoff, currentDir,
                   filesInDir, soleExpired, withSubdirs, timer, due, expiries, sweeps>>

cleanoutArchive == cleanoutLstat \/ walkRoot \/ walkStep \/ finalCheck

\* ------------------------------------------------------------------ Serve
\* Lines 92-98: Serve starts and arms the timer for one minute.
ServeStart ==
    /\ ~crashed /\ spc = "created"
    /\ spc' = "wait" /\ timer' = "armed" /\ due' = now + FirstDelayDays
    /\ UNCHANGED <<fs, now, param, cleanoutDays, stop, crashed, archVars, sweepVars,
                   expiries, sweeps>>

\* The armed timer expires, on its day or later.  A stop signal that is pending is received before
\* the timer's remaining minute (or day) has passed.
TimerFire ==
    /\ ~crashed /\ timer = "armed" /\ ~stop
    /\ now >= due
    /\ timer' = "fired" /\ due' = 0
    /\ UNCHANGED <<fs, now, param, cleanoutDays, stop, crashed, archVars, sweepVars,
                   spc, expiries, sweeps>>

\* SelectStop leaving only the select, not the loop.
SelectStopStaysInLoop ==
    /\ ~crashed /\ spc = "wait" /\ stop
    /\ UNCHANGED vars

\* Lines 102-103: the select receives from the closed stop channel; the
\* deferred timer.Stop runs.
SelectStop ==
    /\ ~crashed /\ spc = "wait" /\ stop
    /\ spc' = "stopped" /\ timer' = "off" /\ due' = 0
    /\ UNCHANGED <<fs, now, param, cleanoutDays, stop, crashed, archVars, sweepVars,
                   expiries, sweeps>>

\* SelectTimer sweeping whatever cleanoutDays is.
SelectTimerUnguarded ==
    /\ ~crashed /\ spc = "wait" /\ timer = "fired"
    /\ timer' = "off" /\ due' = due
    /\ expiries' = Min(expiries + 1, MaxCount)
    /\ spc' = "clean" /\ sweeps' = Min(sweeps + 1, MaxCount)
    /\ UNCHANGED <<fs, now, param, cleanoutDays, stop, crashed, archVars, sweepVars>>

\* Lines 105-106: the select receives from the timer.
SelectTimer ==
    /\ ~crashed /\ spc = "wait" /\ timer = "fired"
    /\ timer' = "off" /\ due' = due
    /\ expiries' = Min(expiries + 1, MaxCount)
    /\ IF cleanoutDays > 0
       THEN spc' = "clean" /\ sweeps' = Min(sweeps + 1, MaxCount)
       ELSE spc' = "rearm" /\ sweeps' = sweeps
    /\ UNCHANGED <<fs, now, param, cleanoutDays, stop, crashed, archVars, sweepVars>>

\* ServeRearm with Serve returning when the sweep returned an error.
ServeRearmUnlessError ==
    /\ ~crashed /\ spc = "rearm"
    /\ IF sweepErr = "err"
       THEN spc' = "stopped" /\ timer' = "off" /\ due' = 0
       ELSE spc' = "wait" /\ timer' = "armed" /\ due' = now + RearmDays
    /\ cutoff' = 0 /\ currentDir' = NoPath /\ filesInDir' = 0 /\ walk' = <<>>
    /\ sweepErr' = "none" /\ delFailed' = FALSE /\ soleExpired' = {} /\ withSubdirs' = {}
    /\ removedAny' = FALSE
    /\ UNCHANGED <<fs, now, param, cleanoutDays, stop, crashed, archVars, expiries, sweeps>>

\* Lines 107-113: the sweep's error is logged and the timer reset to 24 hours.
ServeRearm ==
    /\ ~crashed /\ spc = "rearm"
    /\ spc' = "wait" /\ timer' = "armed" /\ due' = now + RearmDays
    /\ cutoff' = 0 /\ currentDir' = NoPath /\ filesInDir' = 0 /\ walk' = <<>>
    /\ sweepErr' = "none" /\ delFailed' = FALSE /\ soleExpired' = {} /\ withSubdirs' = {}
    /\ removedAny' = FALSE
    /\ UNCHANGED <<fs, now, param, cleanoutDays, stop, crashed, archVars, expiries, sweeps>>

Serve == ServeStart \/ SelectStop \/ SelectTimer \/ cleanoutArchive \/ ServeRearm

\* Stop with the stop signal a flag that a second call takes back.
StopReusable ==
    /\ ~crashed
    /\ stop' = ~stop
    /\ UNCHANGED <<fs, now, param, cleanoutDays, crashed, archVars, sweepVars, serveVars>>

\* Lines 118-120: close(t.stop); closing a closed channel panics.
Stop ==
    /\ ~crashed
    /\ IF stop THEN crashed' = TRUE /\ stop' = stop /\ KillServe /\ KillArchive
       ELSE stop' = TRUE /\ UNCHANGED <<crashed, archVars, sweepVars, serveVars>>
    /\ UNCHANGED <<fs, now, param, cleanoutDays>>

\* ------------------------------------------------------- specifications
\* Archive calls, the sweeper and the caller, interleaved step by step.
Next == Archive \/ Caller \/ Tick \/ Serve \/ TimerFire \/ Stop

Spec == Init /\ [][Next]_vars

\* Archive calls and the sweeper interleaved on an instance that is not
\* stopped.
NextRace == \/ Archive \/ Caller \/ Tick
            \/ ServeStart \/ TimerFire \/ SelectTimer \/ cleanoutArchive \/ ServeRearm

RaceSpec == Init /\ [][NextRace]_vars

\* Archive calls on an instance whose Serve was never started.
NextArchive == Archive \/ Caller \/ Tick

ArchiveSpec == Init /\ [][NextArchive]_vars

\* The scheduler on an instance whose Archive is never called.  Serve's
\* goroutine is scheduled: a step of Serve that stays possible is taken.
NextLife == Serve \/ TimerFire \/ Stop \/ Tick

LifeSpec == Init /\ [][NextLife]_vars /\ WF_vars(Serve)

\* ------------------------------------------------------------ the claims
Sweeping == spc \in {"walkroot", "walk", "final"}

\* cleanoutArchive has returned nil and none of its deletions failed.
CleanSweepDone == spc = "rearm" /\ sweepErr = "nil" /\ ~delFailed

ArchiveReturns == apc # "returned" /\ apc' = "returned"

ArchiveCalled == apc = "done" /\ apc' \notin {"done", "dead"}

IsError(r) == r \notin {"none", "nil", "panic"}

\* The error of the step Archive stands at.
StepError(pc) ==
    CASE pc = "done" -> "ErrLstat"
      [] pc = "stat" -> "ErrStat"
      [] pc = "mkversions" -> "ErrMkdirVersions"
      [] pc = "mkparent" -> "ErrMkdirParent"
      [] pc = "rename" -> "ErrRename"
      [] OTHER -> "none"

\* C1: when Archive of an existing file that is no symlink returns nil, the
\* path is gone from the live tree and the mirrored path under the versions
\* directory holds the content the original had.
C1_MoveSemantics ==
    [][(apc = "chtimes" /\ ArchiveReturns /\ ret' = "nil") =>
        /\ ~IsFile(fs', filePath)
        /\ IsFile(fs', archivedPath)
        /\ fs'.files[archivedPath].content = info.content]_vars

\* C2: whenever Archive returns an error, the file is still at its path in
\* the live tree, as it was before the failing step and as Lstat saw it, and
\* the error is that of the failing step.
C2_AllOrNothing ==
    [][(ArchiveReturns /\ IsError(ret')) =>
        /\ IsFile(fs', filePath')
        /\ fs'.files[filePath'] = fs.files[filePath']
        /\ apc # "done" => fs'.files[filePath'] = info
        /\ ret' = StepError(apc)]_vars

\* The move has failed and the file is where it was.
C2_Witness ==
    /\ apc = "returned" /\ ret = "ErrRename"
    /\ IsFile(fs, filePath) /\ fs.files[filePath] = info
    /\ ~IsFile(fs, archivedPath)

\* A step leaves the files at or after the cutoff as they are.
KeepsUnexpired ==
    \A q \in ArchPaths :
        (IsFile(fs, q) /\ fs.files[q].mtime >= cutoff) => fs'.files[q] = fs.files[q]

\* C3: a sweep never touches a file whose mtime is at or after the cutoff it
\* took at its start, and when it has returned nil with every deletion done,
\* no file with an mtime before that cutoff is left: exactly the files
\* strictly older than the cutoff are removed.
C3_Retention ==
    /\ [][Sweeping => KeepsUnexpired]_vars
    /\ [](CleanSweepDone => \A q \in ArchPaths : IsFile(fs, q) => fs.files[q].mtime >= cutoff)

\* A sweep has removed an expired file and left one whose mtime is the cutoff.
C3_Witness ==
    /\ CleanSweepDone /\ soleExpired # {}
    /\ \A d \in soleExpired : DirNames(fs, d) = <<>>
    /\ \E q \in ArchPaths : IsFile(fs, q) /\ fs.files[q].mtime = cutoff

\* C4: the sweeper does not delete the entry of an Archive call in progress
\* before cleanoutDays days have passed since the move, and a call that
\* returns nil within that time leaves its entry in the archive.
C4_NoEarlyDelete ==
    [][(apc = "chtimes" /\ cleanoutDays > 0 /\ now - movedAt < cleanoutDays) =>
        /\ IsFile(fs, archivedPath) => IsFile(fs', archivedPath)
        /\ apc' = "returned" => IsFile(fs', archivedPath)]_vars

\* C5: after a sweep that returned nil with every deletion done, no directory
\* is left that held, at the sweep's start, one expired file and nothing else.
C5_SoleExpiredRemoved ==
    CleanSweepDone => \A d \in soleExpired : ~IsDir(fs, d)

\* A step deletes no archived file.
DeletesNothing == \A q \in ArchPaths : IsFile(fs, q) => IsFile(fs', q)

\* The parameter is absent, unparsable, or "0".
RetentionDisabled == param \in {<<>>, <<"1", "d">>, <<"0">>}

StoppedEarly == stop /\ timer # "fired" /\ expiries = 0

C8_MtimeIsNow ==
    [][(apc = "chtimes" /\ ArchiveReturns /\ ret' = "nil") =>
        /\ IsFile(fs', archivedPath)
        /\ fs'.files[archivedPath].mtime = now]_vars

\* C8 amended: right after Archive of an existing file returns nil, the
\* archived file is there with mtime now when Chtimes succeeded; when Chtimes
\* failed, the archived file, if it is there, has the original file's mtime.
C8_MtimeIsNowUnlessChtimesFails ==
    [][(apc = "chtimes" /\ ArchiveReturns /\ ret' = "nil") =>
        /\ ~chtimesErr' =>
            IsFile(fs', archivedPath) /\ fs'.files[archivedPath].mtime = now
        /\ (chtimesErr' /\ IsFile(fs', archivedPath)) =>
            fs'.files[archivedPath].mtime = info.mtime]_vars

\* An older file has been archived and carries the day of its archival.
C8_Witness ==
    /\ apc = "returned" /\ ret = "nil" /\ info.kind = "file" /\ ~chtimesErr
    /\ IsFile(fs, archivedPath)
    /\ info.mtime < fs.files[archivedPath].mtime
    /\ fs.files[archivedPath].mtime = now

C10_SymlinkPanics ==
    [][(ArchiveCalled /\ fs.files[filePath'].kind = "symlink") =>
        /\ ret' = "panic" /\ crashed'
        /\ fs' = fs]_vars

\* C10 amended: Archive of a symlink leaves the filesystem as it is and never
\* returns nil; it panics when Lstat shows the symlink, and returns Lstat's
\* error when Lstat fails.
C10_SymlinkPanicsOrLstatFails ==
    [][(ArchiveCalled /\ fs.files[filePath'].kind = "symlink") =>
        /\ fs' = fs
        /\ apc' = "returned"
        /\ IF info'.kind = "symlink" THEN ret' = "panic" /\ crashed'
           ELSE ret' = "ErrLstat" /\ ~crashed']_vars

\* Archive of a symlink has panicked: the symlink is in place and there is no
\* versions directory.
C10_Witness ==
    /\ crashed /\ ret = "panic" /\ info.kind = "symlink"
    /\ fs.files[filePath].kind = "symlink"
    /\ ~IsDir(fs, versionsDir)

\* The process has ended on the panic of a second Stop.
StopPanicked == crashed /\ stop /\ apc = "dead" /\ spc = "dead"

\* C11: Stop on an instance whose stop channel is closed can be taken at once
\* and panics; the panic ends Serve and whatever sweep was running, and from
\* then on nothing changes: no sweep starts and the filesystem stays as it is.
C11_SecondStopPanics ==
    /\ []((stop /\ ~crashed) => ENABLED Stop)
    /\ [][(stop /\ Stop) => StopPanicked']_vars
    /\ [][StopPanicked => UNCHANGED vars]_vars

\* A second Stop has panicked on an instance with retention on, after its
\* sweeps, with an expired file still in the archive.
C11_Witness ==
    /\ StopPanicked /\ cleanoutDays > 0 /\ sweeps = MaxCount
    /\ \E q \in ArchPaths : IsFile(fs, q) /\ fs.files[q].mtime < now - cleanoutDays

\* The versions directory, when there is one, is hidden.
HiddenIfPresent == IsDir(fs, versionsDir) => fs.hidden

\* C12: apart from the step that creates the versions directory for Hide to
\* mark it next (lines 65-68), no step takes the versions directory from
\* hidden or absent to present and not hidden.
C12_VersionsDirHidden ==
    [][(HiddenIfPresent /\ apc' # "hide") => HiddenIfPresent']_vars

\* Serve takes the timer's expiry out of the select.
TimerExpiryTaken == spc = "wait" /\ timer = "fired" /\ spc' \in {"clean", "rearm"}

\* cleanoutArchive is called.
SweepCalled == spc # "clean" /\ spc' = "clean"

\* The loop iteration of an expiry ends: the timer is reset.
IterationEnds == spc = "rearm" /\ spc' \notin {"rearm", "dead"}

\* C13: an expiry taken by the loop calls cleanoutArchive when cleanoutDays > 0
\* and goes straight to the reset otherwise; cleanoutArchive is called on an
\* expiry only, so once per expiry and never while a sweep is in progress;
\* the sweep ends and, whatever it returned, the timer is then armed for one
\* day more and Serve is back at its select.
C13_OneSweepPerExpiry ==
    /\ [][TimerExpiryTaken => spc' = (IF cleanoutDays > 0 THEN "clean" ELSE "rearm")]_vars
    /\ [][SweepCalled => TimerExpiryTaken /\ cleanoutDays > 0]_vars
    /\ [](sweeps = (IF cleanoutDays > 0 THEN expiries ELSE 0))
    /\ [][IterationEnds => spc' = "wait" /\ timer' = "armed" /\ due' = now + RearmDays]_vars
    /\ (spc = "clean") ~> (spc = "rearm" \/ crashed)
    /\ (spc = "rearm") ~> (spc = "wait" \/ crashed)

\* After a sweep that returned an error, Serve is about to reset the timer.
C13_Witness ==
    /\ spc = "rearm" /\ sweepErr = "err" /\ cleanoutDays > 0
    /\ sweeps = MaxCount /\ expiries = MaxCount /\ timer = "off" /\ ~crashed

\* Serve is in its loop: at the select, in a sweep, or at the timer's reset.
Running == spc \in {"wait", "clean", "walkroot", "walk", "final", "rearm"}

\* C14: once stop is closed, a running Serve returns (unless a panic ends the
\* process first); it does not return from inside a sweep, which goes on to
\* its end; and once Serve has returned, no sweep runs and the files stay.
C14_ServeReturnsAfterStop ==
    /\ (stop /\ Running) ~> (spc = "stopped" \/ crashed)
    /\ [][(stop /\ (Sweeping \/ spc = "clean")) => spc' # "stopped"]_vars
    /\ (stop /\ (Sweeping \/ spc = "clean")) ~> (spc = "rearm" \/ crashed)
    /\ [][spc = "stopped" => (spc' \in {"stopped", "dead"} /\ sweeps' = sweeps /\ fs' = fs)]_vars

\* Serve has returned on Stop after its expiries and sweeps.
C14_Witness ==
    /\ stop /\ spc = "stopped" /\ ~crashed
    /\ sweeps = MaxCount /\ expiries = MaxCount /\ timer = "off"

\* C15: with stop closed and Serve at its select, Serve does not take the
\* timer's expiry and call cleanoutArchive: no sweep begins after Stop.
C15_NoSweepAfterStop ==
    [][(stop /\ spc = "wait") => ~SweepCalled]_vars

\* C16: a directory that held a directory when the sweep began is still there
\* while the sweep runs and when it has returned, whatever the sweep removed
\* from it.
C16_TwoPassReclamation ==
    \A d \in withSubdirs : IsDir(fs, d)

\* A sweep has returned nil and left, empty, a directory whose subdirectory it
\* has removed.
C16_Witness ==
    /\ CleanSweepDone
    /\ \E d \in withSubdirs \ {versionsDir} : IsDir(fs, d) /\ DirNames(fs, d) = <<>>

\* A file the sweep in progress keeps: its mtime is not before the cutoff.
Surviving(q) == IsFile(fs, q) /\ ~Before(fs.files[q].mtime, cutoff)

\* The directories with no surviving file anywhere below them.
Reclaimable ==
    {d \in fs.dirs :
        \A q \in ArchPaths : (Len(q) > Len(d) /\ SubSeq(q, 1, Len(d)) = d) => ~Surviving(q)}

TraversalError == Sweeping /\ sweepErr # "err" /\ sweepErr' = "err"

\* Nothing that is gone comes back.
NoRollback == \A p \in AllFiles \cup VersionDirs : ~Exists(fs, p) => ~Exists(fs', p)

\* C18: an error of the walk is met before the final check and makes
\* cleanoutArchive return it at once, the final check skipped; until the timer
\* is reset nothing more is visited or deleted; and no step of or after a
\* sweep brings back what the sweep has deleted.
C18_TraversalErrorAborts ==
    /\ [][TraversalError => (spc # "final" /\ spc' = "rearm" /\ walk' = <<>>)]_vars
    /\ [][(spc = "rearm" /\ sweepErr = "err") =>
            (fs' = fs /\ spc' \in {"rearm", "wait", "dead"})]_vars
    /\ [][(Sweeping \/ spc = "rearm") => NoRollback]_vars

\* A sweep has returned an error after a deletion: an expired file it did not
\* reach is still there, and so is the empty directory its final check would
\* have removed.
C18_Witness ==
    /\ spc = "rearm" /\ sweepErr = "err" /\ removedAny /\ ~delFailed
    /\ \E q \in ArchPaths : IsFile(fs, q) /\ Before(fs.files[q].mtime, cutoff)
    /\ currentDir # NoPath /\ filesInDir = 0 /\ DirNames(fs, currentDir) = <<>>

\* C19: when Archive comes to its move, the file is at its path and the
\* directory of the archived path, made at lines 74-76, is there: without a
\* fault the move succeeds and Archive returns nil.
C19_MoveFindsItsDirectory ==
    apc = "rename" => CanRename(fs, filePath, archivedPath)

\* A step changes nothing in the live tree.
LiveTreeUnchanged == \A p \in FilePaths : fs'.files[p] = fs.files[p]

\* A step leaves each archived file as it is or removes it, and removes only
\* files whose mtime is before the cutoff.
OnlyExpiredFilesRemoved ==
    \A q \in ArchPaths :
        /\ fs'.files[q] \in {fs.files[q], NoEntry}
        /\ (IsFile(fs, q) /\ ~IsFile(fs', q)) => Before(fs.files[q].mtime, cutoff)

\* A step makes no directory and removes only directories of the versions
\* tree that hold nothing; the hidden mark goes with the versions directory.
OnlyEmptyDirsRemoved ==
    /\ fs'.dirs \subseteq fs.dirs
    /\ \A d \in fs.dirs \ fs'.dirs : d \in VersionDirs /\ DirNames(fs, d) = <<>>
    /\ fs'.hidden = (fs.hidden /\ IsDir(fs', versionsDir))

\* A step of cleanoutArchive: each one moves Serve or the walk on.
SweepStep ==
    /\ spc \in {"clean", "walkroot", "walk", "final"}
    /\ spc' # spc \/ walk' # walk

\* C20: every step of cleanoutArchive leaves the live tree as it is, removes
\* no file whose mtime is at or after the cutoff, removes no directory that
\* holds an entry, and changes neither content nor mtime of an archived file
\* it leaves.
C20_SweepFrame ==
    [][SweepStep => (LiveTreeUnchanged /\ OnlyExpiredFilesRemoved /\ OnlyEmptyDirsRemoved)]_vars

\* A sweep has removed something and returned, with a file in the live tree
\* and a file it kept in the archive.
C20_Witness ==
    /\ spc = "rearm" /\ removedAny
    /\ \E p \in FilePaths : fs.files[p].kind = "file"
    /\ \E q \in ArchPaths : Surviving(q)

====
